---- MODULE Spec2Model ----
(***************************************************************************)
(* event-custodian: a Custodian takes over the listeners of one event type *)
(* of an EventEmitter.  mount() captures the native listeners into         *)
(* this.handlers, leaves the dispatch handler as the only native listener  *)
(* and overrides the emitter's subscription entry points; unmount()        *)
(* reverts.  The model follows src/index.js.                               *)
(***************************************************************************)
EXTENDS Integers, Sequences, FiniteSets, TLC

\* ---------------------------------------------------------------- bounds
MaxLen == 3        \* longest listener list built by external calls
MaxOther == 1      \* longest listener list of the other event type
MaxErr == 2        \* most listeners on the custodian's error channel
MaxWid == 1        \* most one-shot wrappers alive at a time

\* ------------------------------------------------------------ vocabulary
T == "event"       \* the managed type (this.type)
O == "other"       \* some other event type of the same emitter
Types == {T, O}

Recorders == {"a", "b"}                 \* callbacks that only have an effect
Throwers == {"t1", "t2"}                \* callbacks that throw their own error
Mutators == {"mAdd", "mDel", "mClr"}    \* callbacks that change the subscriptions
Reentrant == {"mEmit"}                  \* callbacks that emit the managed type
Callbacks == Recorders \cup Throwers \cup Mutators \cup Reentrant

Aliases == {"addListener", "on", "prependListener", "prependOnceListener",
            "once", "removeListener", "off", "removeAllListeners"}

\* A listener value.  k = "fn": a caller's function f; k = "cw": a onceHandler
\* closure made by the custodian around f (w is its identity); k = "nw": the
\* emitter's own once wrapper around f; k = "handler": this.handler;
\* k = "str": a value that is no function (a type name in a listener position).
Fn(f) == [k |-> "fn", f |-> f, w |-> 0]
Cw(f, w) == [k |-> "cw", f |-> f, w |-> w]
Nw(f, w) == [k |-> "nw", f |-> f, w |-> w]
Handler == [k |-> "handler", f |-> "-", w |-> 0]
\* The same for a second custodian, of the other type, on the same emitter: its
\* onceHandler closures and its dispatch handler.
Cw2(f, w) == [k |-> "cw2", f |-> f, w |-> w]
Handler2 == [k |-> "handler2", f |-> "-", w |-> 0]
Str(s) == [k |-> "str", f |-> s, w |-> 0]

NoExc == [kind |-> "none", val |-> "-"]
Exc(kind, val) == [kind |-> kind, val |-> val]

\* ------------------------------------------------------- sequence helpers
\* Variant of IndexOf: Array.prototype.lastIndexOf.
LastIndexOf(L, e) ==
    IF \E i \in 1..Len(L) : L[i] = e
    THEN CHOOSE i \in 1..Len(L) : L[i] = e /\ \A j \in (i + 1)..Len(L) : L[j] # e
    ELSE 0

\* Array.prototype.indexOf, 1-based; 0 stands for JavaScript's -1.
IndexOf(L, e) ==
    IF \E i \in 1..Len(L) : L[i] = e
    THEN CHOOSE i \in 1..Len(L) : L[i] = e /\ \A j \in 1..(i - 1) : L[j] # e
    ELSE 0

RemoveAt(L, i) == [j \in 1..(Len(L) - 1) |-> IF j < i THEN L[j] ELSE L[j + 1]]

\* Variant of Splice1: a removal guarded by index !== -1.
SpliceMinusOneNoop(L, idx) == IF idx = 0 THEN L ELSE RemoveAt(L, idx)

\* Array.prototype.splice(index, 1) where index is the result of indexOf:
\* a negative index counts from the end, so -1 deletes the last element.
Splice1(L, idx) ==
    IF Len(L) = 0 THEN L
    ELSE IF idx = 0 THEN RemoveAt(L, Len(L))
    ELSE RemoveAt(L, idx)

\* ------------------------------------------- the emitter's native methods
\* EventEmitter.listeners(type): the listeners, once wrappers unwrapped.
Listeners(L) == [i \in 1..Len(L) |-> IF L[i].k = "nw" THEN Fn(L[i].f) ELSE L[i]]

\* EventEmitter.removeListener: the most recently added match goes.
NativeMatch(x, e) == x = e \/ (x.k = "nw" /\ Fn(x.f) = e)
NativeRemove(L, e) ==
    IF \E i \in 1..Len(L) : NativeMatch(L[i], e)
    THEN RemoveAt(L, CHOOSE i \in 1..Len(L) :
                        /\ NativeMatch(L[i], e)
                        /\ \A j \in (i + 1)..Len(L) : ~NativeMatch(L[j], e))
    ELSE L

\* A closure is a new object: its identity differs from that of every wrapper
\* still held by a listener list.
Wids(L) == {L[i].w : i \in {j \in 1..Len(L) : L[j].k \in {"cw", "nw", "cw2"}}}
FreshWid(s) ==
    LET used == Wids(s.handlers) \cup Wids(s.native) \cup Wids(s.other)
                    \cup Wids(s.second.handlers)
    IN CHOOSE w \in 1..(Cardinality(used) + 1) :
          w \notin used /\ \A v \in 1..(w - 1) : v \in used

ListOf(s, type) == IF type = T THEN s.native ELSE s.other
SetList(s, type, L) == IF type = T THEN [s EXCEPT !.native = L] ELSE [s EXCEPT !.other = L]

\* The original entry points of the emitter.  Every one but removeAllListeners
\* throws a TypeError (ERR_INVALID_ARG_TYPE) for a listener that is no function;
\* a third argument is ignored.
Native(s, alias, type, e) ==
    IF alias = "removeAllListeners"
    THEN [SetList(s, type, <<>>) EXCEPT !.ret = "emitter"]
    ELSE IF e.k = "str"
    THEN [s EXCEPT !.exc = Exc("TypeError", alias)]
    ELSE IF alias \in {"addListener", "on"}
    THEN [SetList(s, type, Append(ListOf(s, type), e)) EXCEPT !.ret = "emitter"]
    ELSE IF alias = "prependListener"
    THEN [SetList(s, type, <<e>> \o ListOf(s, type)) EXCEPT !.ret = "emitter"]
    ELSE IF alias = "once"
    THEN [SetList(s, type, Append(ListOf(s, type), Nw(e.f, FreshWid(s))))
            EXCEPT !.ret = "emitter"]
    ELSE IF alias = "prependOnceListener"
    THEN [SetList(s, type, <<Nw(e.f, FreshWid(s))>> \o ListOf(s, type))
            EXCEPT !.ret = "emitter"]
    ELSE \* removeListener, off
         [SetList(s, type, NativeRemove(ListOf(s, type), e)) EXCEPT !.ret = "emitter"]

\* ----------------------------------------------- the custodian's overrides
RECURSIVE Call(_, _, _, _, _)
RECURSIVE Invoke(_, _, _, _, _, _)

\* Variant of PrependOnceListenerImpl: the wrapper goes through on.
PrependOnceAtTail(s, e) == Call(s, "on", T, Cw(e.f, FreshWid(s)), FALSE)

\* Variant of PrependOnceListenerImpl: the emitter's original one-shot prepend.
PrependOnceNative(s, e) == Native(s, "prependOnceListener", T, e)

\* The implementation of prependOnceListener (128-134): a new onceHandler
\* closure around the handler, passed to this.emitter.prependListener.
PrependOnceListenerImpl(s, e) ==
    Call(s, "prependListener", T, Cw(e.f, FreshWid(s)), FALSE)

\* Variant of RemoveAllListenersImpl: the emitter's original removeAllListeners.
RemoveAllNative(s) == Native(s, "removeAllListeners", T, Fn("-"))

\* The implementation of removeAllListeners (158-160): this.handlers.length = 0.
RemoveAllListenersImpl(s) == [s EXCEPT !.handlers = <<>>]

\* The implementations installed by mount() (src/index.js 106-161), for a call
\* on the managed type.  this.emitter.once and friends are looked up on the
\* emitter at call time, so they reach whatever entry point is installed then.
Implementation(s, alias, e, once) ==
    IF alias \in {"addListener", "on"}
    THEN IF once
         THEN Call(s, "once", T, e, FALSE)
         ELSE [s EXCEPT !.handlers = Append(s.handlers, e)]
    ELSE IF alias = "prependListener"
    THEN IF once
         THEN Call(s, "prependOnceListener", T, e, FALSE)
         ELSE [s EXCEPT !.handlers = <<e>> \o s.handlers]
    ELSE IF alias = "prependOnceListener"
    THEN PrependOnceListenerImpl(s, e)
    ELSE IF alias = "once"
    THEN [s EXCEPT !.handlers = Append(s.handlers, Cw(e.f, FreshWid(s)))]
    ELSE IF alias \in {"removeListener", "off"}
    THEN [s EXCEPT !.handlers = Splice1(s.handlers, IndexOf(s.handlers, e))]
    ELSE RemoveAllListenersImpl(s)

\* The function override() puts on the emitter under `alias` (170-186).  For
\* another type it calls the saved original with this.type in front of the
\* caller's own arguments, so the caller's type lands in the listener position.
Override(s, alias, type, e, once) ==
    IF type # T
    THEN Invoke(s, s.saved[alias], alias, T, Str(type), FALSE)
    ELSE [Implementation(s, alias, e, once) EXCEPT !.ret = "emitter"]

\* The implementations installed by the mount() of the second custodian: the
\* same code, with its own this.handlers and this.type.
Implementation2(s, alias, e, once) ==
    IF alias \in {"addListener", "on"}
    THEN IF once
         THEN Call(s, "once", O, e, FALSE)
         ELSE [s EXCEPT !.second.handlers = Append(s.second.handlers, e)]
    ELSE IF alias = "prependListener"
    THEN IF once
         THEN Call(s, "prependOnceListener", O, e, FALSE)
         ELSE [s EXCEPT !.second.handlers = <<e>> \o s.second.handlers]
    ELSE IF alias = "prependOnceListener"
    THEN Call(s, "prependListener", O, Cw2(e.f, FreshWid(s)), FALSE)
    ELSE IF alias = "once"
    THEN [s EXCEPT !.second.handlers = Append(s.second.handlers, Cw2(e.f, FreshWid(s)))]
    ELSE IF alias \in {"removeListener", "off"}
    THEN [s EXCEPT !.second.handlers =
                      Splice1(s.second.handlers, IndexOf(s.second.handlers, e))]
    ELSE [s EXCEPT !.second.handlers = <<>>]

\* The function override() of the second custodian puts on the emitter (170-186).
Override2(s, alias, type, e, once) ==
    IF type # O
    THEN Invoke(s, s.second.saved[alias], alias, O, Str(type), FALSE)
    ELSE [Implementation2(s, alias, e, once) EXCEPT !.ret = "emitter"]

\* A call of the function fn, which is the emitter's original entry point, an
\* override of one of the custodians, or nothing (undefined.call throws).
Invoke(s, fn, alias, type, e, once) ==
    IF fn = "override" THEN Override(s, alias, type, e, once)
    ELSE IF fn = "override2" THEN Override2(s, alias, type, e, once)
    ELSE IF fn = "native" THEN Native(s, alias, type, e)
    ELSE [s EXCEPT !.exc = Exc("TypeError", alias)]

\* emitter[alias](type, e, {once}) through whichever entry point is installed.
Call(s, alias, type, e, once) == Invoke(s, s.api[alias], alias, type, e, once)

\* ------------------------------------------------------------------ state
VARIABLES
    handlers,   \* this.handlers: the managed list
    native,     \* the emitter's own listener list for the managed type
    other,      \* the emitter's own listener list for the other type
    events,     \* listeners of 'error' on this.events, the error channel
    api,        \* what each subscription entry point of the emitter is now
    saved,      \* this.mounted[alias]: the entry points saved by mount()
    mounted,    \* whether this.mounted is defined
    second,     \* the second custodian: [handlers, saved, mounted], as above
    isProcess,  \* this.emitter === process
    cfg,        \* what the client code of this run uses: [cbs, types, once], and
                \* rejection: whether /unhandledRejection/i matches this.type
    ran,        \* callbacks invoked by the last call, in invocation order
    emitted,    \* errors passed to this.events.emit('error', _) by the last call
    got,        \* errors received by the caller's recording error listener
    printed,    \* errors written by the fallback listener (console.error)
    thrown,     \* what the last call threw at its call site
    ret,        \* what the last call returned
    last,       \* the last call: [op, type, f, once], and for a subscription call
                \* len: the length of the managed list when it was made
    pristine,   \* listeners() just before the last mount(), while nothing was called since
    ideal       \* the list the specification expects the calls made since mount() to give

vars == <<handlers, native, other, events, api, saved, mounted, second, isProcess, cfg,
          ran, emitted, got, printed, thrown, ret, last, pristine, ideal>>

\* The part of the state the operators work on, with the logs of a fresh call.
Store ==
    [handlers |-> handlers, native |-> native, other |-> other, events |-> events,
     api |-> api, saved |-> saved, second |-> second,
     ran |-> <<>>, emitted |-> <<>>, got |-> <<>>, printed |-> <<>>,
     exc |-> NoExc, ret |-> "-",
     busy |-> FALSE]    \* whether a callback of this call is emitting the type

\* ------------------------------------------------------- running callbacks
RECURSIVE EmitNative(_)

\* What a caller's function does when invoked.  mEmit emits the managed type
\* again, unless it is itself running inside the emission it started.
RunFn(s, f) ==
    LET s1 == [s EXCEPT !.ran = Append(s.ran, f)] IN
    IF f \in Throwers THEN [s1 EXCEPT !.exc = Exc("callback", f)]
    ELSE IF f = "mEmit"
    THEN IF s1.busy THEN s1
         ELSE [EmitNative([s1 EXCEPT !.busy = TRUE]) EXCEPT !.busy = FALSE]
    ELSE IF f = "mAdd"
    THEN Call(Call(s1, "on", T, Fn("b"), FALSE), "prependListener", T, Fn("a"), FALSE)
    ELSE IF f = "mDel" THEN Call(s1, "removeListener", T, Fn("a"), FALSE)
    ELSE IF f = "mClr" THEN Call(s1, "removeAllListeners", T, Fn("-"), FALSE)
    ELSE s1

\* Variant of OnceHandler: the wrapper does not remove itself.
OnceHandlerStays(s, e) == RunFn(s, e.f)

\* onceHandler (129-132, 140-143), and the emitter's own once wrapper alike:
\* this.emitter.removeListener(this.type, onceHandler), then the function.
OnceHandler(s, e) == RunFn(Call(s, "removeListener", T, e, FALSE), e.f)

\* this.events.emit('error', error) for one listener list snapshot.
RECURSIVE Deliver(_, _, _, _)
Deliver(s, ls, i, err) ==
    IF i > Len(ls) THEN s
    ELSE IF ls[i] = "bad" THEN [s EXCEPT !.exc = Exc("listener", "bad")]
    ELSE IF ls[i] = "rec" THEN Deliver([s EXCEPT !.got = Append(s.got, err)], ls, i + 1, err)
    ELSE Deliver([s EXCEPT !.printed = Append(s.printed, err)], ls, i + 1, err)

\* Variant of EmitError: an 'error' emission without listener is dropped.
EmitErrorSilent(s, err) ==
    Deliver([s EXCEPT !.emitted = Append(s.emitted, err)], s.events, 1, err)

\* An 'error' emission without listener throws (the emitter's unhandled error).
EmitError(s, err) ==
    LET s1 == [s EXCEPT !.emitted = Append(s.emitted, err)] IN
    IF Len(s1.events) = 0
    THEN [s1 EXCEPT !.exc = Exc("unhandled", err)]
    ELSE Deliver(s1, s1.events, 1, err)

\* Variant of EmitErrors: only the first error is emitted.
EmitOnlyFirst(s, errors, i) == EmitError(s, errors[1])

\* errors.forEach((error) => this.events.emit('error', error)) (49-51)
RECURSIVE EmitErrors(_, _, _)
EmitErrors(s, errors, i) ==
    IF i > Len(errors) \/ s.exc.kind # "none" THEN s
    ELSE EmitErrors(EmitError(s, errors[i]), errors, i + 1)

\* Variant of VerifyFallback: the fallback is attached on any emitter.
FallbackAnyEmitter(s) ==
    IF Len(s.events) = 0 THEN [s EXCEPT !.events = <<"fallback">>] ELSE s

\* Variant of VerifyFallback: no fallback is ever attached.
NoFallback(s) == s

\* Variant of VerifyFallback: listenerCount('error') is not looked at.
FallbackAmongListeners(s) ==
    IF isProcess /\ cfg.rejection
    THEN [s EXCEPT !.events = Append(s.events, "fallback")]
    ELSE s

\* Variant of VerifyFallback: only the caller's listeners are counted.
FallbackBesideFallback(s) ==
    IF isProcess /\ cfg.rejection /\ \A i \in 1..Len(s.events) : s.events[i] = "fallback"
    THEN [s EXCEPT !.events = Append(s.events, "fallback")]
    ELSE s

\* The fallback listener of lines 40-46: attached when the emitter is process,
\* the type is an unhandledRejection one and 'error' has no listener.
VerifyFallback(s) ==
    IF isProcess /\ cfg.rejection /\ Len(s.events) = 0
    THEN [s EXCEPT !.events = <<"fallback">>]
    ELSE s

RECURSIVE RunEntry(_, _)

\* Variant of Catch: no try/catch, a failure ends the iteration and propagates.
Rethrow(r, errors) == [s |-> r, errors |-> errors, go |-> r.exc.kind = "none"]

\* Variant of Catch: the failure is emitted from inside the catch block.
EmitInCatch(r, errors) ==
    IF r.exc.kind = "none" THEN [s |-> r, errors |-> errors, go |-> TRUE]
    ELSE LET e == EmitError(VerifyFallback([r EXCEPT !.exc = NoExc]), r.exc.val)
         IN [s |-> e, errors |-> errors, go |-> e.exc.kind = "none"]

\* try { handler.apply(this.emitter, args) } catch (error) { errors.push(error) }
\* (30-34), applied to the outcome r of the call: the failure is kept and the
\* iteration goes on.
Catch(r, errors) ==
    [s |-> [r EXCEPT !.exc = NoExc],
     errors |-> IF r.exc.kind # "none" THEN Append(errors, r.exc.val) ELSE errors,
     go |-> TRUE]

\* Variant of DispatchItem: this.handlers.forEach, which reads the live array.
LiveItem(s, copy, i) == IF i <= Len(s.handlers) THEN <<s.handlers[i]>> ELSE <<>>

\* The i-th element the dispatch visits: an element of the copy of this.handlers
\* taken when the dispatch starts (27), not of the live array.
DispatchItem(s, copy, i) == <<copy[i]>>

\* [ ...this.handlers ].forEach(try { handler.apply } catch { errors.push }) (27-36)
RECURSIVE RunHandlers(_, _, _, _)
RunHandlers(s, copy, i, errors) ==
    IF i > Len(copy) THEN [s |-> s, errors |-> errors]
    ELSE LET item == DispatchItem(s, copy, i) IN
         IF Len(item) = 0 THEN RunHandlers(s, copy, i + 1, errors)
         ELSE LET c == Catch(RunEntry(s, item[1]), errors) IN
              IF c.go THEN RunHandlers(c.s, copy, i + 1, c.errors)
              ELSE [s |-> c.s, errors |-> c.errors]

\* this.handler (22-53)
Dispatch(s) ==
    LET r == RunHandlers(s, s.handlers, 1, <<>>) IN
    IF r.s.exc.kind # "none" THEN r.s
    ELSE IF Len(r.errors) > 0
    THEN EmitErrors(VerifyFallback(r.s), r.errors, 1)
    ELSE r.s

\* Invoking one listener value.
RunEntry(s, e) ==
    IF e.k = "handler" THEN Dispatch(s)
    ELSE IF e.k \in {"handler2", "cw2"}
    THEN s  \* listeners of the other type, which this model never emits
    ELSE IF e.k = "fn" THEN RunFn(s, e.f)
    ELSE OnceHandler(s, e)

\* emitter.emit(type): the listeners present at the start run in order; a
\* listener that throws ends the emission and the call.
RECURSIVE RunNative(_, _, _)
RunNative(s, copy, i) ==
    IF i > Len(copy) \/ s.exc.kind # "none" THEN s
    ELSE RunNative(RunEntry(s, copy[i]), copy, i + 1)

EmitNative(s) == RunNative(s, s.native, 1)

\* ---------------------------------------------------------------- actions
ErrListeners == {"rec", "bad"}
AllNative == [al \in Aliases |-> "native"]
AllOverride == [al \in Aliases |-> "override"]
AllOverride2 == [al \in Aliases |-> "override2"]
NoneSaved == [al \in Aliases |-> "none"]
Dropped == [ok |-> FALSE, list |-> <<>>]

\* The state after new Custodian(emitter, type), for client code that registers
\* the functions c on the types ts, with the once options os, and that starts with
\* the error listeners ev attached; ps: whether the emitter is process, rs: whether
\* the type is an unhandledRejection one.
InitWith(c, ts, os, ps, rs, ev) ==
    /\ handlers = <<>> /\ native = <<>> /\ other = <<>> /\ events = ev
    /\ api = AllNative /\ saved = NoneSaved /\ mounted = FALSE
    /\ second = [handlers |-> <<>>, saved |-> NoneSaved, mounted |-> FALSE]
    /\ isProcess \in ps
    /\ cfg \in [cbs : {c}, types : {ts}, once : {os}, rejection : rs]
    /\ ran = <<>> /\ emitted = <<>> /\ got = <<>> /\ printed = <<>>
    /\ thrown = NoExc /\ ret = "-"
    /\ last = [op |-> "new", type |-> T, f |-> "-", once |-> FALSE, len |-> 0]
    /\ pristine = Dropped
    /\ ideal = <<>>

InBounds(r) ==
    /\ Len(r.handlers) <= MaxLen /\ Len(r.native) <= MaxLen
    /\ Len(r.other) <= MaxOther /\ Len(r.second.handlers) <= MaxOther
    /\ Cardinality(Wids(r.handlers) \cup Wids(r.native) \cup Wids(r.other)
                        \cup Wids(r.second.handlers)) <= MaxWid

\* The state a call leaves behind.
Commit(r) ==
    /\ handlers' = r.handlers /\ native' = r.native /\ other' = r.other
    /\ events' = r.events /\ api' = r.api /\ saved' = r.saved /\ second' = r.second
    /\ ran' = r.ran /\ emitted' = r.emitted /\ got' = r.got /\ printed' = r.printed
    /\ thrown' = r.exc /\ ret' = r.ret

\* The managed list the specification describes for a call on the managed type
\* (spec.md 4.1): append at the tail, prepend at index 0, one-shot forms as
\* self-removing entries, remove-single a no-op when the callback is absent.
Expected(L, alias, f, once, w) ==
    IF alias \in {"addListener", "on"}
    THEN Append(L, IF once THEN Cw(f, w) ELSE Fn(f))
    ELSE IF alias = "prependListener"
    THEN <<IF once THEN Cw(f, w) ELSE Fn(f)>> \o L
    ELSE IF alias = "once" THEN Append(L, Cw(f, w))
    ELSE IF alias = "prependOnceListener" THEN <<Cw(f, w)>> \o L
    ELSE IF alias \in {"removeListener", "off"}
    THEN (IF IndexOf(L, Fn(f)) = 0 THEN L ELSE RemoveAt(L, IndexOf(L, Fn(f))))
    ELSE <<>>

\* After an emission the one-shot entries are gone.
ExpectedAfterEmit(L) == SelectSeq(L, LAMBDA e : e.k = "fn")

\* The expected list is followed for client code whose callbacks leave the
\* subscriptions alone.
Followed == mounted /\ saved # NoneSaved /\ cfg.cbs \cap (Mutators \cup Reentrant) = {}

\* emitter[alias](type, f, { once }) called by client code.
Subscribe(alias, type, f, once) ==
    LET r == Call(Store, alias, type, Fn(f), once) IN
    /\ InBounds(r)
    /\ Commit(r)
    /\ last' = [op |-> alias, type |-> type, f |-> f, once |-> once,
                len |-> Len(handlers)]
    /\ pristine' = Dropped
    /\ ideal' = IF Followed /\ type = T
                THEN Expected(ideal, alias, f, once, FreshWid(Store))
                ELSE ideal
    /\ Len(ideal') <= MaxLen
    /\ UNCHANGED <<mounted, isProcess, cfg>>

FnsFor(type) == IF type = T THEN cfg.cbs ELSE {"a"}

On == \E type \in cfg.types, once \in cfg.once : \E f \in FnsFor(type) :
        Subscribe("on", type, f, once)
AddListener == \E type \in cfg.types, once \in cfg.once : \E f \in FnsFor(type) :
        Subscribe("addListener", type, f, once)
PrependListener == \E type \in cfg.types, once \in cfg.once : \E f \in FnsFor(type) :
        Subscribe("prependListener", type, f, once)
PrependOnceListener == \E type \in cfg.types : \E f \in FnsFor(type) :
        Subscribe("prependOnceListener", type, f, FALSE)
Once == \E type \in cfg.types : \E f \in FnsFor(type) :
        Subscribe("once", type, f, FALSE)
RemoveListener == \E type \in cfg.types : \E f \in FnsFor(type) :
        Subscribe("removeListener", type, f, FALSE)
Off == \E type \in cfg.types : \E f \in FnsFor(type) :
        Subscribe("off", type, f, FALSE)
RemoveAllListeners == \E type \in cfg.types :
        Subscribe("removeAllListeners", type, "-", FALSE)

\* emitter.emit(this.type)
Emit ==
    LET r == EmitNative(Store) IN
    /\ InBounds(r)
    /\ Commit([r EXCEPT !.ret = IF r.exc.kind = "none" THEN "emitted" ELSE "-"])
    /\ last' = [op |-> "emit", type |-> T, f |-> "-", once |-> FALSE, len |-> 0]
    /\ pristine' = IF r.handlers = handlers /\ r.native = native THEN pristine ELSE Dropped
    /\ ideal' = IF Followed THEN ExpectedAfterEmit(ideal) ELSE ideal
    /\ UNCHANGED <<mounted, isProcess, cfg>>

\* Variant of MountListeners: the captured listeners are not removed.
MountKeepListeners(s) ==
    Call([s EXCEPT !.handlers = Listeners(s.native)], "on", T, Handler, FALSE)

\* Variant of MountListeners: the listeners are removed without being captured.
MountDropsListeners(s) ==
    LET s1 == Call([s EXCEPT !.handlers = <<>>], "removeAllListeners", T, Fn("-"), FALSE)
    IN Call(s1, "on", T, Handler, FALSE)

\* Lines 94-104 of mount(): capture the listeners, remove them, engulf.
MountListeners(s) ==
    LET s0 == [s EXCEPT !.handlers = Listeners(s.native)]
        s1 == Call(s0, "removeAllListeners", T, Fn("-"), FALSE)
    IN Call(s1, "on", T, Handler, FALSE)

\* Variant of AlreadyMounted: mount() without its guard.
MountUnguarded == FALSE

\* if (this.mounted) { return this; } (91-93)
AlreadyMounted == mounted

\* mount() (90-164)
Mount ==
    /\ last' = [op |-> "mount", type |-> T, f |-> "-", once |-> FALSE, len |-> 0]
    /\ IF AlreadyMounted
       THEN /\ Commit([Store EXCEPT !.ret = "custodian"])
            /\ UNCHANGED <<mounted, pristine, ideal>>
       ELSE LET s2 == MountListeners(Store)
            IN /\ mounted' = TRUE
               /\ IF s2.exc.kind # "none"
                  THEN \* this.emitter.on threw: this.mounted is {} and no
                       \* override was installed
                       /\ Commit(s2)
                       /\ pristine' = Dropped
                       /\ ideal' = <<>>
                  ELSE /\ Commit([s2 EXCEPT !.saved = s2.api, !.api = AllOverride,
                                            !.ret = "custodian"])
                       /\ pristine' = [ok |-> TRUE, list |-> Listeners(native)]
                       /\ ideal' = IF cfg.cbs \cap (Mutators \cup Reentrant) = {}
                                   THEN Listeners(native) ELSE <<>>
    /\ UNCHANGED <<isProcess, cfg>>

\* Variant of Reattach: the handlers are re-attached with prependListener.
RECURSIVE ReattachPrepend(_, _, _)
ReattachPrepend(s, hs, i) ==
    IF i > Len(hs) THEN s
    ELSE ReattachPrepend(Call(s, "prependListener", T, hs[i], FALSE), hs, i + 1)

\* this.handlers.forEach((handler) => this.emitter.on(this.type, handler)) (79-81)
RECURSIVE Reattach(_, _, _)
Reattach(s, hs, i) ==
    IF i > Len(hs) \/ s.exc.kind # "none" THEN s
    ELSE Reattach(Call(s, "on", T, hs[i], FALSE), hs, i + 1)

\* Variant of Restore: this.mounted is dropped, the overrides stay on the emitter.
RestoreNothing(s) == [s EXCEPT !.saved = NoneSaved]

\* Object.entries(this.mounted).forEach(([key, value]) => { this.emitter[key] =
\* value; delete this.mounted[key]; }); delete this.mounted (65-71)
Restore(s) ==
    [s EXCEPT !.api = [al \in Aliases |->
                          IF s.saved[al] = "none" THEN s.api[al] ELSE s.saved[al]],
              !.saved = NoneSaved]

\* unmount() (60-84)
Unmount ==
    /\ last' = [op |-> "unmount", type |-> T, f |-> "-", once |-> FALSE, len |-> 0]
    /\ IF ~mounted
       THEN /\ Commit([Store EXCEPT !.ret = "custodian"])
            /\ UNCHANGED <<mounted, pristine, ideal>>
       ELSE LET s0 == Restore(Store)
                s1 == Call(s0, "removeListener", T, Handler, FALSE)
                s2 == Reattach(s1, s1.handlers, 1)
            IN /\ InBounds(s2)
               /\ Commit([s2 EXCEPT !.ret = IF s2.exc.kind = "none"
                                            THEN "custodian" ELSE "-"])
               /\ mounted' = FALSE
               /\ ideal' = <<>>
               /\ UNCHANGED pristine
    /\ UNCHANGED <<isProcess, cfg>>

\* mount() of the second custodian (90-164)
MountSecond ==
    /\ last' = [op |-> "mount2", type |-> O, f |-> "-", once |-> FALSE, len |-> 0]
    /\ IF second.mounted
       THEN Commit([Store EXCEPT !.ret = "custodian"])
       ELSE LET s0 == [Store EXCEPT !.second.handlers = Listeners(other),
                                    !.second.mounted = TRUE]
                s1 == Call(s0, "removeAllListeners", O, Fn("-"), FALSE)
                s2 == Call(s1, "on", O, Handler2, FALSE)
            IN IF s2.exc.kind # "none"
               THEN Commit(s2)
               ELSE Commit([s2 EXCEPT !.second.saved = s2.api, !.api = AllOverride2,
                                      !.ret = "custodian"])
    /\ UNCHANGED <<mounted, isProcess, cfg, pristine, ideal>>

RECURSIVE Reattach2(_, _, _)
Reattach2(s, hs, i) ==
    IF i > Len(hs) \/ s.exc.kind # "none" THEN s
    ELSE Reattach2(Call(s, "on", O, hs[i], FALSE), hs, i + 1)

\* unmount() of the second custodian (60-84)
UnmountSecond ==
    /\ last' = [op |-> "unmount2", type |-> O, f |-> "-", once |-> FALSE, len |-> 0]
    /\ IF ~second.mounted
       THEN Commit([Store EXCEPT !.ret = "custodian"])
       ELSE LET s0 == [Store EXCEPT
                        !.api = [al \in Aliases |->
                                    IF second.saved[al] = "none" THEN api[al]
                                    ELSE second.saved[al]],
                        !.second.saved = NoneSaved,
                        !.second.mounted = FALSE]
                s1 == Call(s0, "removeListener", O, Handler2, FALSE)
                s2 == Reattach2(s1, s1.second.handlers, 1)
            IN /\ InBounds(s2)
               /\ Commit([s2 EXCEPT !.ret = IF s2.exc.kind = "none"
                                            THEN "custodian" ELSE "-"])
    /\ UNCHANGED <<mounted, isProcess, cfg, pristine, ideal>>

\* Variant of EventsOn: the listener is registered on the managed emitter.
EmitterOn(s, l) == Call(s, "on", T, Fn(l), FALSE)

\* this.events.on(kind, handler) (195)
EventsOn(s, l) == [s EXCEPT !.events = Append(s.events, l)]

\* custodian.on('error', l) (194-198)
CustodianOn ==
    \E l \in ErrListeners :
        /\ Len(events) < MaxErr
        /\ Commit([EventsOn(Store, l) EXCEPT !.ret = "custodian"])
        /\ last' = [op |-> "custodian.on", type |-> "error", f |-> l, once |-> FALSE, len |-> 0]
        /\ UNCHANGED <<mounted, isProcess, cfg, pristine, ideal>>

\* EventEmitter.removeListener on the error channel.
RemoveLast(L, l) ==
    IF \E i \in 1..Len(L) : L[i] = l
    THEN RemoveAt(L, CHOOSE i \in 1..Len(L) : L[i] = l /\ \A j \in (i + 1)..Len(L) : L[j] # l)
    ELSE L

\* custodian.off('error', l) and custodian.off('error') (206-213)
CustodianOff ==
    \E l \in ErrListeners \cup {"-"} :
        /\ Commit([Store EXCEPT !.events = IF l = "-" THEN <<>> ELSE RemoveLast(events, l),
                                !.ret = "custodian"])
        /\ last' = [op |-> "custodian.off", type |-> "error", f |-> l, once |-> FALSE, len |-> 0]
        /\ UNCHANGED <<mounted, isProcess, cfg, pristine, ideal>>

\* Client code that uses every subscription entry point for the managed type.
Init == InitWith({"a", "b"}, {T}, BOOLEAN, {FALSE}, {FALSE}, <<"rec">>)
Next ==
    \/ On \/ AddListener \/ PrependListener \/ PrependOnceListener \/ Once
    \/ RemoveListener \/ Off \/ RemoveAllListeners
    \/ Emit \/ Mount
Spec == Init /\ [][Next]_vars

\* Client code that also subscribes to another type of the same emitter.
InitOther == InitWith({"a"}, Types, BOOLEAN, {FALSE}, {FALSE}, <<"rec">>)
NextOther ==
    \/ On \/ AddListener \/ PrependListener \/ PrependOnceListener \/ Once
    \/ RemoveListener \/ Off \/ RemoveAllListeners
    \/ Emit \/ Mount \/ Unmount
SpecOther == InitOther /\ [][NextOther]_vars

\* Client code that mounts and unmounts the custodian any number of times.
InitLife == InitWith({"a", "b"}, {T}, {FALSE}, {FALSE}, {FALSE}, <<"rec">>)
NextLife ==
    \/ On \/ PrependListener \/ Once \/ RemoveListener
    \/ Emit \/ Mount \/ Unmount
SpecLife == InitLife /\ [][NextLife]_vars

\* Client code whose callbacks throw, with any error listeners.
InitErr == InitWith({"a", "b", "t1", "t2"}, {T}, {FALSE}, BOOLEAN, {TRUE}, <<>>)
NextErr ==
    \/ On \/ PrependListener
    \/ Emit \/ Mount \/ CustodianOn \/ CustodianOff
SpecErr == InitErr /\ [][NextErr]_vars

\* Client code whose callbacks change the subscriptions while they run.
InitMut == InitWith({"a", "mAdd", "mDel", "mClr"}, {T}, {FALSE}, {FALSE}, {FALSE}, <<"rec">>)
NextMut == On \/ PrependListener \/ Emit \/ Mount
SpecMut == InitMut /\ [][NextMut]_vars

\* Client code with a callback that emits the managed type while it is dispatched.
InitReentrant == InitWith({"a", "b", "mEmit"}, {T}, {FALSE}, {FALSE}, {FALSE}, <<"rec">>)
NextReentrant == On \/ PrependListener \/ Once \/ Emit \/ Mount
SpecReentrant == InitReentrant /\ [][NextReentrant]_vars

\* Client code that uses two custodians, of two types, on the same emitter.
InitTwo == InitWith({"a"}, Types, {FALSE}, {FALSE}, {FALSE}, <<"rec">>)
NextTwo ==
    \/ On \/ PrependListener \/ RemoveListener \/ RemoveAllListeners
    \/ Emit \/ Mount \/ Unmount \/ MountSecond \/ UnmountSecond
SpecTwo == InitTwo /\ [][NextTwo]_vars

\* Client code on any emitter and any type name, with a callback that throws and
\* any error listeners.
InitFallback == InitWith({"a", "t1", "t2"}, {T}, {FALSE}, BOOLEAN, BOOLEAN, <<>>)
NextFallback == On \/ Emit \/ Mount \/ CustodianOn \/ CustodianOff
SpecFallback == InitFallback /\ [][NextFallback]_vars

\* ----------------------------------------------------------------- claims
Fns(L) == [i \in 1..Len(L) |-> L[i].f]
ThrowersOf(L) == SelectSeq(Fns(L), LAMBDA f : f \in Throwers)
Without(L, e) == SelectSeq(L, LAMBDA x : x # e)
Count(L, e) == Cardinality({i \in 1..Len(L) : L[i] = e})
\* The custodian is mounted and its dispatch handler is the native listener.
Managing == mounted /\ native = <<Handler>>
Removal == {"removeListener", "off"}

\* C1: while mounted, with an error listener attached and one throwing callback
\* in the managed list, an emission invokes every callback of the list in list
\* order and makes exactly one 'error' emission, carrying that callback's error.
C1_Isolation ==
    [][(Managing /\ last'.op = "emit" /\ Len(events) > 0
            /\ Len(ThrowersOf(handlers)) = 1)
        => (ran' = Fns(handlers) /\ emitted' = ThrowersOf(handlers))]_vars

C1_Witness ==
    /\ mounted /\ last.op = "emit" /\ Len(ran) = 3
    /\ ran[1] \in Recorders /\ ran[2] \in Throwers /\ ran[3] \in Recorders
    /\ ran[1] # ran[3]
    /\ emitted = <<ran[2]>> /\ got = <<ran[2]>>

\* C2 as stated: whatever the error listeners (none included), an emission of a
\* mounted custodian whose list holds throwing callbacks throws nothing of theirs
\* at the call site of emit, and every failure is passed to the error channel.
C2_NeverPropagates ==
    [][(Managing /\ last'.op = "emit" /\ Len(ThrowersOf(handlers)) > 0)
        => (thrown'.kind \notin {"callback", "unhandled"}
            /\ emitted' = ThrowersOf(handlers))]_vars

\* C2 amended: the dispatch handler catches every failure (all callbacks of the
\* list run) and passes the first one to the error channel; the failure reaches
\* the call site of emit, as the channel's unhandled 'error', exactly when the
\* channel has no 'error' listener and the process fallback does not apply.
C2_CaughtAndForwarded ==
    [][(Managing /\ last'.op = "emit" /\ Len(ThrowersOf(handlers)) > 0)
        => (/\ ran' = Fns(handlers)
            /\ Len(emitted') >= 1
            /\ emitted'[1] = ThrowersOf(handlers)[1]
            /\ thrown'.kind # "callback"
            /\ (thrown'.kind = "unhandled"
                    <=> (Len(events) = 0 /\ ~(isProcess /\ cfg.rejection)))
            /\ (thrown'.kind = "unhandled" => thrown'.val = ThrowersOf(handlers)[1]))]_vars

C2_Witness ==
    /\ mounted /\ last.op = "emit" /\ Len(ran) >= 2
    /\ Len(emitted) >= 1 /\ got = emitted /\ thrown.kind = "none"

\* C3: mount() leaves the dispatch handler as the only native listener of the
\* managed type, and every subscription call for the managed type made while
\* mounted (and every emission) keeps it so.
C3_SingleNativeListener ==
    [][/\ (~mounted /\ last'.op = "mount") => native' = <<Handler>>
       /\ (Managing /\ last'.op \in Aliases \cup {"emit"} /\ last'.type = T)
            => native' = <<Handler>>]_vars

C3_Witness ==
    /\ mounted /\ last.op = "prependOnceListener" /\ last.type = T
    /\ native = <<Handler>> /\ Len(handlers) >= 2

\* C4: while mounted, a subscription call for another type does what the
\* original entry point does for that type with the same arguments, and leaves
\* the managed list and the managed type's native listeners alone.
C4_OtherTypePassThrough ==
    [][(mounted /\ last'.op \in Aliases /\ last'.type = O)
        => LET r == Native(Store, last'.op, O, Fn(last'.f)) IN
           /\ other' = r.other /\ thrown' = r.exc /\ ret' = r.ret
           /\ handlers' = handlers /\ native' = native]_vars

\* C5: the callbacks run by an emission of a mounted custodian are, in order,
\* the list obtained by applying the subscription calls made since mount(), as
\* the specification describes them, to the list captured at mount().
C5_OrderAsApplied ==
    [][(Managing /\ last'.op = "emit") => ran' = Fns(ideal)]_vars

\* C6 as stated: removing a callback that is in the managed list leaves every
\* other callback, in order, and none of the removed one.
C6_RemovesExactlyH ==
    [][(mounted /\ last'.op \in Removal /\ last'.type = T
            /\ IndexOf(handlers, Fn(last'.f)) # 0)
        => handlers' = Without(handlers, Fn(last'.f))]_vars

\* C6 amended: removing a callback that is in the managed list removes one
\* entry, its first occurrence, and keeps every other entry in order, so that the
\* callback is gone when it was in the list once; an emission runs the entries of
\* the list in order.
C6_RemovesFirstOccurrence ==
    [][/\ (mounted /\ last'.op \in Removal /\ last'.type = T
              /\ IndexOf(handlers, Fn(last'.f)) # 0)
          => /\ \E i \in 1..Len(handlers) :
                   /\ handlers[i] = Fn(last'.f)
                   /\ \A j \in 1..(i - 1) : handlers[j] # Fn(last'.f)
                   /\ handlers' = RemoveAt(handlers, i)
             /\ Count(handlers, Fn(last'.f)) = 1 => Count(handlers', Fn(last'.f)) = 0
       /\ (Managing /\ last'.op = "emit") => ran' = Fns(handlers)]_vars

C6_Witness ==
    /\ mounted /\ last.op \in Removal /\ last.type = T
    /\ Len(handlers) = 2 /\ ideal = handlers
    /\ Count(handlers, Fn(last.f)) = 0

\* C7: removing a callback that is not in the managed list changes nothing and
\* raises nothing.
C7_RemoveAbsentNoop ==
    [][(mounted /\ last'.op \in Removal /\ last'.type = T
            /\ IndexOf(handlers, Fn(last'.f)) = 0)
        => (handlers' = handlers /\ thrown'.kind = "none")]_vars

\* C8: an emission runs exactly the callbacks that were in the managed list when
\* it started, each once and in that order, whatever they do to the list.
C8_SnapshotDispatch ==
    [][(Managing /\ last'.op = "emit") => ran' = Fns(handlers)]_vars

C8_Witness ==
    /\ mounted /\ last.op = "emit"
    /\ Len(ran) = 3 /\ ran[1] = "mClr" /\ ran[3] = "mAdd"
    /\ handlers = <<Fn("a"), Fn("b")>>

C10_UnmountRestores ==
    [][(mounted /\ last'.op = "unmount")
        => (/\ ~mounted' /\ handlers' = handlers
            /\ native' = handlers
            /\ pristine.ok => Listeners(native') = pristine.list)]_vars

C10_Witness ==
    /\ ~mounted /\ last.op = "unmount" /\ pristine.ok
    /\ Len(native) >= 2 /\ native[1] # native[2] /\ native = pristine.list

\* C11: mount() of a mounted custodian and unmount() of a custodian that is not
\* mounted change neither the managed list, nor the saved entry points, nor the
\* emitter's entry points, nor its native listeners; they raise nothing and
\* return the custodian.
C11_Idempotent ==
    [][((mounted /\ last'.op = "mount") \/ (~mounted /\ last'.op = "unmount"))
        => (/\ handlers' = handlers /\ saved' = saved /\ api' = api
            /\ native' = native /\ other' = other /\ mounted' = mounted
            /\ thrown'.kind = "none" /\ ret' = "custodian")]_vars

\* A mount() of a custodian whose list has changed since it was mounted.
C11_Witness ==
    /\ mounted /\ last.op = "mount" /\ ~pristine.ok
    /\ Len(handlers) >= 2 /\ native = <<Handler>> /\ ret = "custodian"

\* The condition of lines 41-42: the process emitter and an unhandledRejection type.
ProcessRejection == isProcess /\ cfg.rejection
\* A dispatch of the mounted custodian in which a managed callback throws.
FailingDispatch == Managing /\ last'.op = "emit" /\ Len(ThrowersOf(handlers)) > 0
Installed == Count(events', "fallback") > Count(events, "fallback")

\* C12: on an ordinary emitter and with no listener on the error channel, an
\* emission in which a managed callback throws throws the error channel's
\* unhandled error, carrying the first failure, at the call site of emit; the
\* channel is left without listener, so that every later such emission does too.
C12_UnhandledWithoutListener ==
    [][(FailingDispatch /\ ~ProcessRejection /\ Len(events) = 0)
        => (/\ thrown'.kind = "unhandled"
            /\ thrown'.val = ThrowersOf(handlers)[1]
            /\ ran' = Fns(handlers)
            /\ events' = <<>>)]_vars

C12_Witness ==
    /\ mounted /\ last.op = "emit" /\ ~isProcess /\ events = <<>>
    /\ thrown = Exc("unhandled", "t1") /\ emitted = <<"t1">>
    /\ Len(ran) = 3 /\ ran[1] = "t1"

\* C13: on the process emitter with an unhandledRejection type, when the caller
\* has attached no error listener, every emission in which managed callbacks throw
\* completes: all callbacks run, nothing reaches the call site of emit, and every
\* failure is delivered to the fallback listener, which prints it; the fallback
\* stays attached for the later emissions.
C13_FallbackPrints ==
    [][(FailingDispatch /\ ProcessRejection
            /\ \A i \in 1..Len(events) : events[i] = "fallback")
        => (/\ thrown'.kind = "none" /\ ret' = "emitted"
            /\ ran' = Fns(handlers)
            /\ emitted' = ThrowersOf(handlers)
            /\ printed' = emitted' /\ got' = <<>>
            /\ events' = <<"fallback">>)]_vars

C13_Witness ==
    /\ mounted /\ last.op = "emit" /\ ProcessRejection
    /\ events = <<"fallback">> /\ thrown.kind = "none"
    /\ printed = <<"t2", "t1">> /\ Len(ran) = 3

\* C14: the fallback listener is attached only by a dispatch with a failure, and
\* by such a dispatch exactly when the emitter is process, the type is an
\* unhandledRejection one and the error channel has no listener; it is attached
\* before the 'error' emissions of the dispatch, so that it receives them all; a
\* dispatch without failure leaves the error channel alone.
C14_FallbackCondition ==
    [][/\ Installed => FailingDispatch
       /\ FailingDispatch
            => (Installed <=> (isProcess /\ cfg.rejection /\ Len(events) = 0))
       /\ (FailingDispatch /\ Installed)
            => (events' = <<"fallback">> /\ printed' = emitted'
                /\ emitted' = ThrowersOf(handlers))
       /\ (Managing /\ last'.op = "emit" /\ ~Installed) => events' = events]_vars

\* A failing dispatch on the process emitter that attached no second fallback
\* next to the caller's listener and the fallback of an earlier dispatch.
C14_Witness ==
    /\ mounted /\ last.op = "emit" /\ ProcessRejection
    /\ events = <<"fallback", "rec">>
    /\ Len(emitted) >= 1 /\ printed = emitted /\ got = emitted

OneShots(L) == SelectSeq(L, LAMBDA e : e.k = "cw")
Lasting(L) == SelectSeq(L, LAMBDA e : e.k = "fn")
\* A call of once, or of on/addListener with the once option, on the managed type.
AppendsOnce ==
    /\ last'.type = T
    /\ last'.op = "once" \/ (last'.op \in {"on", "addListener"} /\ last'.once)

\* C15: while mounted, once (and on/addListener with the once option) appends a
\* new self-removing wrapper of the callback to the managed list and leaves the
\* native listeners alone; the next emission runs the list in order, the wrapper
\* after the entries that were before it, and takes the wrappers out of the
\* managed list, the dispatch handler staying the native listener: no later
\* emission runs them.
C15_OnceAtTail ==
    [][/\ (Managing /\ AppendsOnce)
            => /\ \E w \in (1..(Len(handlers) + 1)) \ Wids(handlers) :
                     handlers' = Append(handlers, Cw(last'.f, w))
               /\ native' = native /\ thrown'.kind = "none"
       /\ (Managing /\ last'.op = "emit")
            => /\ ran' = Fns(handlers)
               /\ handlers' = Lasting(handlers)
               /\ native' = native]_vars

\* An emission that ran a, b and then a one-shot a, which is gone.
C15_Witness ==
    /\ mounted /\ last.op = "emit" /\ native = <<Handler>>
    /\ ran = <<"a", "b", "a">> /\ handlers = <<Fn("a"), Fn("b")>>

\* A call of prependOnceListener, or of prependListener with the once option, on
\* the managed type.
PrependsOnce ==
    /\ last'.type = T
    /\ last'.op = "prependOnceListener" \/ (last'.op = "prependListener" /\ last'.once)
OnWithOnce == last'.type = T /\ last'.op \in {"on", "addListener"} /\ last'.once

\* C16: while mounted, a callback registered with prependOnceListener (or with
\* prependListener and the once option) runs first on the next emission, before
\* every managed callback, and on no later emission, and the managed callbacks
\* keep their order: the call puts a one-shot entry of the callback in front of
\* the others, and an emission runs the entries in order and keeps the lasting
\* ones, in order.
C16_PrependOnceRunsFirst ==
    [][/\ (Managing /\ PrependsOnce)
            => /\ Len(handlers') = Len(handlers) + 1
               /\ handlers'[1].k = "cw" /\ handlers'[1].f = last'.f
               /\ Tail(handlers') = handlers
       /\ (Managing /\ last'.op = "emit")
            => /\ ran' = Fns(handlers)
               /\ Fns(handlers') = Fns(Lasting(handlers))]_vars

\* An emission that ran a one-shot b ahead of a, b; a, b remain.
C16_Witness ==
    /\ mounted /\ last.op = "emit"
    /\ ran = <<"b", "a", "b">> /\ handlers = <<Fn("a"), Fn("b")>>

\* C17 as stated: the one-shot forms other than once leave the managed list alone
\* and add a one-shot listener to the emitter's own list, the prepend forms ahead
\* of the dispatch handler.
C17_OneShotsBypassManagedList ==
    [][(Managing /\ (PrependsOnce \/ OnWithOnce))
        => (/\ handlers' = handlers
            /\ Len(native') = 2
            /\ IF PrependsOnce
               THEN native'[1].k = "nw" /\ native'[1].f = last'.f /\ native'[2] = Handler
               ELSE native'[2].k = "nw" /\ native'[2].f = last'.f /\ native'[1] = Handler)]_vars

\* C17 amended: these forms leave the native listeners alone and put a new
\* self-removing wrapper in the managed list, the prepend forms at its head and
\* on/addListener with the once option at its tail; its firing takes it out of the
\* managed list again, the lasting entries and the native listeners unchanged.
C17_OneShotsInManagedList ==
    [][/\ (Managing /\ PrependsOnce)
            => /\ \E w \in (1..(Len(handlers) + 1)) \ Wids(handlers) :
                     handlers' = <<Cw(last'.f, w)>> \o handlers
               /\ native' = native
       /\ (Managing /\ OnWithOnce)
            => /\ \E w \in (1..(Len(handlers) + 1)) \ Wids(handlers) :
                     handlers' = Append(handlers, Cw(last'.f, w))
               /\ native' = native
       /\ (Managing /\ last'.op = "emit" /\ Len(OneShots(handlers)) > 0)
            => /\ OneShots(handlers') = <<>>
               /\ Lasting(handlers') = Lasting(handlers)
               /\ native' = native]_vars

\* prependListener with the once option has put a wrapper at the head of the
\* managed list, the dispatch handler staying the only native listener.
C17_Witness ==
    /\ mounted /\ last.op = "prependListener" /\ last.once
    /\ Len(handlers) = 3 /\ handlers[1].k = "cw" /\ handlers[1].f = last.f
    /\ native = <<Handler>>

\* A call of on/addListener or prependListener without the once option.
Registers == last'.type = T /\ last'.op \in {"on", "addListener", "prependListener"} /\ ~last'.once

\* C18: while mounted, removeAllListeners for the managed type empties the
\* managed list and changes nothing else (the dispatch handler stays the native
\* listener, the overrides stay in place, the error channel is untouched); an
\* emission of an empty list runs nothing, a callback registered afterwards goes
\* to the tail (on/addListener) or the head (prependListener) of the list, and an
\* emission runs the list in order.
C18_RemoveAllEmptiesList ==
    [][/\ (Managing /\ last'.op = "removeAllListeners" /\ last'.type = T)
            => /\ handlers' = <<>>
               /\ native' = native /\ other' = other /\ events' = events
               /\ api' = api /\ saved' = saved /\ mounted' = mounted
               /\ thrown'.kind = "none" /\ ret' = "emitter"
       /\ (Managing /\ last'.op = "emit" /\ handlers = <<>>) => ran' = <<>>
       /\ (Managing /\ Registers)
            => handlers' = IF last'.op = "prependListener"
                           THEN <<Fn(last'.f)>> \o handlers
                           ELSE Append(handlers, Fn(last'.f))
       /\ (Managing /\ last'.op = "emit") => ran' = Fns(handlers)]_vars

\* removeAllListeners has emptied a managed list of three callbacks.
C18_Witness ==
    /\ mounted /\ last.op = "removeAllListeners" /\ last.type = T /\ last.len = 3
    /\ handlers = <<>> /\ native = <<Handler>> /\ api = AllOverride

\* C19: the custodian's own on and off change the listeners of the error channel
\* and nothing of the emitter or of the managed list, mounted or not: on appends
\* the listener, off with a listener removes one registration of it, off without
\* one removes them all, and both return the custodian.
C19_ErrorChannelOnly ==
    [][(last'.op \in {"custodian.on", "custodian.off"})
        => (/\ handlers' = handlers /\ native' = native /\ other' = other
            /\ api' = api /\ saved' = saved /\ mounted' = mounted
            /\ thrown'.kind = "none" /\ ret' = "custodian"
            /\ last'.op = "custodian.on" => events' = Append(events, last'.f)
            /\ (last'.op = "custodian.off" /\ last'.f = "-") => events' = <<>>
            /\ (last'.op = "custodian.off" /\ last'.f # "-")
                  => /\ Len(events') = Len(events) - (IF Count(events, last'.f) > 0 THEN 1 ELSE 0)
                     /\ Without(events', last'.f) = Without(events, last'.f))]_vars

\* on('error', l) on a mounted custodian that manages two callbacks.
C19_Witness ==
    /\ mounted /\ last.op = "custodian.on" /\ ret = "custodian"
    /\ Len(events) = 2 /\ events[2] = last.f
    /\ Len(handlers) = 2 /\ native = <<Handler>> /\ api = AllOverride

\* C20: unmount() puts back, under every alias, the entry point saved by mount(),
\* which is the emitter's original one, and clears the saved map; from then on a
\* subscription call for the formerly managed type works on the emitter's own
\* listeners (on and prependListener add the callback at the tail and at the head,
\* once adds a one-shot listener of it, removeListener removes one registration of
\* it, removeAllListeners removes them all) and leaves the custodian's list alone.
C20_NativeAfterUnmount ==
    [][/\ (mounted /\ last'.op = "unmount")
            => /\ api' = saved /\ saved' = NoneSaved
               /\ \A al \in Aliases : api'[al] = "native"
       /\ (~mounted /\ last'.op \in Aliases /\ last'.type = T)
            => /\ handlers' = handlers /\ api' = api /\ saved' = saved
               /\ thrown'.kind = "none" /\ ret' = "emitter"
               /\ last'.op \in {"on", "addListener"} => native' = Append(native, Fn(last'.f))
               /\ last'.op = "prependListener" => native' = <<Fn(last'.f)>> \o native
               /\ last'.op = "once"
                    => /\ Len(native') = Len(native) + 1
                       /\ native'[Len(native')].k = "nw" /\ native'[Len(native')].f = last'.f
                       /\ SubSeq(native', 1, Len(native)) = native
               /\ last'.op = "prependOnceListener"
                    => /\ Len(native') = Len(native) + 1
                       /\ native'[1].k = "nw" /\ native'[1].f = last'.f
                       /\ Tail(native') = native
               /\ last'.op \in Removal
                    => /\ Len(native') = Len(native)
                            - (IF Count(Listeners(native), Fn(last'.f)) > 0 THEN 1 ELSE 0)
                       /\ Without(Listeners(native'), Fn(last'.f))
                            = Without(Listeners(native), Fn(last'.f))
               /\ last'.op = "removeAllListeners" => native' = <<>>]_vars

\* After unmount(), removeAllListeners has removed the re-attached listeners and
\* the custodian's list still holds its callbacks.
C20_Witness ==
    /\ ~mounted /\ last.op = "removeAllListeners" /\ last.type = T
    /\ native = <<>> /\ Len(handlers) >= 2 /\ api = AllNative /\ saved = NoneSaved

\* C21: unmount() hands the managed list, one-shot wrappers included, to the
\* emitter in its order and puts the original entry points back; mount() captures
\* the emitter's listeners in their order, saves the original entry points (never
\* an override) and installs the overrides; so unmount() followed by mount()
\* gives the managed list back as it was, any number of times, and the next
\* emission runs it in order, the one-shot wrappers leaving the list.
C21_ToggleKeepsList ==
    [][/\ (mounted /\ last'.op = "unmount")
            => /\ handlers' = handlers /\ native' = handlers
               /\ api' = AllNative /\ saved' = NoneSaved
       /\ (~mounted /\ last'.op = "mount")
            => /\ handlers' = Listeners(native) /\ native' = <<Handler>>
               /\ saved' = AllNative /\ api' = AllOverride
               /\ native = handlers => handlers' = handlers
       /\ (Managing /\ last'.op = "emit")
            => (ran' = Fns(handlers) /\ handlers' = Lasting(handlers))]_vars

\* A custodian just mounted again on a list of three that holds a one-shot
\* wrapper, which only a mounted custodian creates.
C21_Witness ==
    /\ mounted /\ last.op = "mount" /\ pristine.ok /\ pristine.list = handlers
    /\ Len(handlers) = 3 /\ Len(OneShots(handlers)) = 1
    /\ native = <<Handler>> /\ saved = AllNative

\* C22: the error channel never holds more than one fallback listener, and the
\* fallback is the first listener of the channel when it is there: it is attached
\* to a channel without listener only.
C22_AtMostOneFallback ==
    /\ Count(events, "fallback") <= 1
    /\ Count(events, "fallback") = 1 => events[1] = "fallback"

\* A failing dispatch on a channel that already held the fallback of an earlier
\* dispatch and a listener the caller attached after it: no second fallback.
C22_Witness ==
    /\ mounted /\ last.op = "emit" /\ ProcessRejection
    /\ events = <<"fallback", "bad">>
    /\ printed = <<"t1">> /\ emitted = printed /\ thrown.kind = "listener"

\* C23: in a dispatch with failures, the iteration over the copy of the managed
\* list invokes every callback of the copy and collects the failures without
\* emitting any; the 'error' emissions come after it.  Whatever the error
\* listeners do, and when there is none, every callback of the list has run.
C23_CallbacksBeforeErrors ==
    [][FailingDispatch
        => (/\ LET r == RunHandlers(Store, handlers, 1, <<>>)
               IN /\ r.s.ran = Fns(handlers) /\ r.s.emitted = <<>>
                  /\ r.s.exc = NoExc /\ r.errors = ThrowersOf(handlers)
            /\ ran' = Fns(handlers)
            /\ Len(emitted') >= 1 /\ emitted'[1] = ThrowersOf(handlers)[1])]_vars

\* A dispatch whose first callback threw and whose error listener threw in turn:
\* the two callbacks after it ran all the same.
C23_Witness ==
    /\ mounted /\ last.op = "emit" /\ Len(events) >= 1 /\ events[1] = "bad"
    /\ thrown.kind = "listener" /\ Len(ran) = 3
    /\ ran[1] \in Throwers /\ ran[2] \in Recorders /\ ran[3] \in Recorders

\* The callback of a one-shot wrapper of the list that is in the list only once.
OnceOnly(L) ==
    {L[i].f : i \in {j \in 1..Len(L) : L[j].k = "cw" /\ Count(Fns(L), L[j].f) = 1}}

\* C24: an emission, whether or not a managed callback emits the type again
\* while it is dispatched, invokes a callback registered through once at most
\* once, and the wrappers' self-removal takes nothing but the wrappers out of the
\* managed list.
C24_OnceAtMostOnce ==
    [][(Managing /\ last'.op = "emit")
        => (/\ \A f \in OnceOnly(handlers) : Count(ran', f) <= 1
            /\ handlers' = Lasting(handlers))]_vars

\* What the second custodian is made to do: its mount(), its unmount(), and a
\* subscription call for its own type once it has been mounted.
SecondActs ==
    \/ last'.op \in {"mount2", "unmount2"}
    \/ (second.mounted /\ last'.op \in Aliases /\ last'.type = O)

\* Neither custodian's list ever holds a listener of the other custodian.
NoForeignListener ==
    \A e \in {Handler2} \cup {Cw2(f, w) : f \in Callbacks, w \in 1..(MaxWid + 1)} :
        Count(native, e) = 0 /\ Count(handlers, e) = 0

\* C25: with the first custodian mounted and managing its type, nothing the second
\* custodian is made to do changes the first one's managed list or the native
\* listeners of its type (its dispatch handler alone), hence what an emission of
\* that type runs.
C25_NoInterference ==
    [][(Managing /\ SecondActs)
        => (handlers' = handlers /\ native' = native /\ mounted' = mounted)]_vars

====
